---- MODULE Spec2Model ----
(***************************************************************************)
(* PyGeneralGeekDownloader: the segment planner (calc.py) and the          *)
(* segmented download engine (fetch.py, driven by app.py), as a state      *)
(* machine.  Byte ranges are <<start, end>> pairs with both ends           *)
(* inclusive, segment ids are the 0-based indices of the plan, as in the   *)
(* source.                                                                 *)
(***************************************************************************)
EXTENDS Integers, Sequences, FiniteSets, TLC

\* ------------------------------------------------------------------ bounds

\* The planner is explored for sizes -1..MaxPlanSize and requested segment
\* counts -1..MaxPlanSegments.
MaxPlanSize == 9
MaxPlanSegments == 6

\* The engine downloads a resource of FileSize bytes, in plans of at most
\* MaxSegments segments, with retry_times attempts per segment (config
\* "retry_times"), in at most MaxRuns invocations of the process.
FileSize == 4
MaxSegments == 2
retry_times == 2
MaxRuns == 2

\* The probe and the planning step of app.py are explored for segments
\* arguments 0..MaxSegmentsArg, with config_segments_amount segments
\* configured (config "segments_amount").
MaxSegmentsArg == 3
config_segments_amount == 2

\* The largest offset a stored segment_progress entry holds.
MaxStoredOffset == 2

\* ------------------------------------------------------------------ helpers

Min(a, b) == IF a < b THEN a ELSE b

\* Python's list(range(0, stop, step)) for step > 0.
PyRange(stop, step) ==
    [k \in 1..((stop + step - 1) \div step) |-> (k - 1) * step]

\* ------------------------------------------------------------------ strings

\* Header values, file names and URL paths are sequences of one-character
\* strings, so that Python's split, strip and int act on them as they act on
\* the text.

DigitChars == <<"0", "1", "2", "3", "4", "5", "6", "7", "8", "9">>

Digits == {DigitChars[k] : k \in 1..10}

DigitValue(c) == (CHOOSE k \in 1..10 : DigitChars[k] = c) - 1

\* s.split(sep): the pieces of s between the occurrences of the character sep.
RECURSIVE PySplit(_, _)
PySplit(s, sep) ==
    LET I == {k \in 1..Len(s) : s[k] = sep}
    IN IF I = {} THEN <<s>>
       ELSE LET k == CHOOSE j \in I : \A m \in I : j <= m
            IN <<SubSeq(s, 1, k - 1)>>
                   \o PySplit(SubSeq(s, k + 1, Len(s)), sep)

\* s.split(sep)[-1]
PySplitLast(s, sep) == PySplit(s, sep)[Len(PySplit(s, sep))]

\* s.strip(chars): s without its leading and trailing characters of chars.
RECURSIVE PyStrip(_, _)
PyStrip(s, chars) ==
    IF s = <<>> THEN s
    ELSE IF s[1] \in chars THEN PyStrip(Tail(s), chars)
    ELSE IF s[Len(s)] \in chars THEN PyStrip(SubSeq(s, 1, Len(s) - 1), chars)
    ELSE s

\* s.startswith(prefix)
PyStartsWith(s, prefix) ==
    /\ Len(s) >= Len(prefix)
    /\ SubSeq(s, 1, Len(prefix)) = prefix

\* Whether int(s) returns (it raises ValueError otherwise): surrounding
\* blanks, an optional sign, then digits only.
PyIsInt(s) ==
    LET t == PyStrip(s, {" "})
        body == IF t # <<>> /\ t[1] \in {"-", "+"} THEN Tail(t) ELSE t
    IN /\ body # <<>>
       /\ \A k \in 1..Len(body) : body[k] \in Digits

RECURSIVE DecimalValue(_)
DecimalValue(s) ==
    IF s = <<>> THEN 0
    ELSE 10 * DecimalValue(SubSeq(s, 1, Len(s) - 1)) + DigitValue(s[Len(s)])

\* int(s), for s with PyIsInt(s).
PyInt(s) ==
    LET t == PyStrip(s, {" "})
    IN IF t[1] = "-" THEN 0 - DecimalValue(Tail(t))
       ELSE IF t[1] = "+" THEN DecimalValue(Tail(t))
       ELSE DecimalValue(t)

\* Python's None and a value that is not None.
None == [is_none |-> TRUE, value |-> 0]

Some(v) == [is_none |-> FALSE, value |-> v]

\* ------------------------------------------------------------------ calc.py

\* Every range left at [x, x + standard_size - 1]: the last one is not closed.
CloseLast_skipped(segs, max_size) == segs

\* segments[-1][-1] = max_size - 1
CloseLast(segs, max_size) ==
    [k \in 1..Len(segs) |->
        IF k = Len(segs) THEN <<segs[k][1], max_size - 1>> ELSE segs[k]]

\* Every range ends one byte late: [x, x + standard_size].
SegmentPairs_overlap(l1_segments, standard_size) ==
    [k \in 1..Len(l1_segments) |->
        <<l1_segments[k], l1_segments[k] + standard_size>>]

\* segments = [[x, x + standard_size - 1] for x in l1_segments]
SegmentPairs(l1_segments, standard_size) ==
    [k \in 1..Len(l1_segments) |->
        <<l1_segments[k], l1_segments[k] + standard_size - 1>>]

\* get_segment without its test of max_size: what the lines after it do.
get_segment_size_unchecked(max_size, segments_amount) ==
    LET amount == Min(segments_amount, max_size) IN
    IF amount = 0 THEN [error |-> "ZeroDivisionError", segments |-> <<>>]
    ELSE IF amount < 0 \/ max_size <= 0
    THEN [error |-> "IndexError", segments |-> <<>>]
    ELSE LET standard_size == max_size \div amount
             l1_segments == PyRange(max_size, standard_size)
         IN [error |-> "none",
             segments |-> CloseLast(
                 SegmentPairs(l1_segments, standard_size), max_size)]

\* CalcSegments.get_segment: the plan, or the exception it raises.
\*   max_size <= 0                      -> ValueError
\*   min(segments_amount, max_size) = 0 -> max_size // 0: ZeroDivisionError
\*   min(segments_amount, max_size) < 0 -> range() with a negative step is
\*                                         empty, segments[-1]: IndexError
get_segment(max_size, segments_amount) ==
    IF max_size <= 0 THEN [error |-> "ValueError", segments |-> <<>>]
    ELSE LET amount == Min(segments_amount, max_size) IN
         IF amount = 0 THEN [error |-> "ZeroDivisionError", segments |-> <<>>]
         ELSE IF amount < 0 THEN [error |-> "IndexError", segments |-> <<>>]
         ELSE LET standard_size == max_size \div amount
                  l1_segments == PyRange(max_size, standard_size)
              IN [error |-> "none",
                  segments |-> CloseLast(
                      SegmentPairs(l1_segments, standard_size), max_size)]

\* ------------------------------------------------------------------ state

VARIABLES
    \* the planner explored on its own: its arguments and what it returned
    p_size, p_amount, p_result,
    \* the disk: the output file and the sidecar state file
    file_exists, file_bytes, state_exists, state_data,
    \* DownloadManager.download_file_async: its position and its locals
    pc, uri, segments, completed_segments, segment_progress,
    tasks, state_updater, saving, outcome, result,
    \* the rich progress bar: the "completed" count of its task
    progress_bar,
    \* history: invocations so far, whether every accepted response carried
    \* exactly the requested bytes, and how this invocation started:
    \* "no_resume" (resume = False), "fresh" (resume asked for, no state
    \* file read), "discarded" (state file read and not accepted, both files
    \* unlinked), "paused" / "cancelled" / "failed" / "killed" (resumed what
    \* was on disk after an invocation that returned / was cancelled / failed
    \* at its start / was killed)
    runs, honest, start_mode,
    \* the probe and the planning step of app.py explored on their own: the
    \* URL path, the caller's segments argument, the HEAD response and the
    \* response to the fallback GET, where get_file_info_async stands, what
    \* it returned (file_info) and the plan app.py made of it
    url_path, segments_arg, head_response, range_response, probe_pc,
    file_info, segment_ranges,
    \* one call of download_segment_async explored on its own: its arguments,
    \* the loop variable, its position, the output file, what it returned or
    \* raised, the GETs sent so far and how the last one ended, the Range
    \* header of the last GET and the offset of the last file.seek
    f_byte_range, f_resume_offset, f_attempt, f_pc, f_file, f_result,
    f_requests, f_response, f_range_header, f_seek

vars == <<p_size, p_amount, p_result,
          file_exists, file_bytes, state_exists, state_data,
          pc, uri, segments, completed_segments, segment_progress,
          tasks, state_updater, saving, outcome, result,
          runs, honest, progress_bar, start_mode,
          url_path, segments_arg, head_response, range_response, probe_pc,
          file_info, segment_ranges,
          f_byte_range, f_resume_offset, f_attempt, f_pc, f_file, f_result,
          f_requests, f_response, f_range_header, f_seek>>

plan_vars == <<p_size, p_amount, p_result>>

probe_vars == <<url_path, segments_arg, head_response, range_response,
                probe_pc, file_info, segment_ranges>>

fetch_vars == <<f_byte_range, f_resume_offset, f_attempt, f_pc, f_file,
                f_result, f_requests, f_response, f_range_header, f_seek>>

\* The state of the parts explored on their own, which the engine leaves
\* alone.
side_vars == <<plan_vars, probe_vars, fetch_vars>>

disk_vars == <<file_exists, file_bytes, state_exists, state_data>>

\* ------------------------------------------------------------------ server

Uris == {"u1"}

\* The resource: FileSize bytes, the byte at offset k being k + 1 (never the
\* 0 of an unwritten byte of the pre-allocated file).
Content == [k \in 1..FileSize |-> k]

\* Bytes start..end (inclusive, 0-based) of the resource.
ContentRange(start, end) == SubSeq(Content, start + 1, end + 1)

\* What one GET with "Range: bytes=start-end" can end with: the requested
\* bytes with 206; the whole resource with 200 (the Range header ignored);
\* an error status (a timeout or a transport error fails the attempt in the
\* same way).
Responses(start, end) ==
    { [status |-> 206, body |-> ContentRange(start, end)],
      [status |-> 200, body |-> Content],
      [status |-> 404, body |-> <<>>] }

\* ------------------------------------------------------------------ files

\* A file pre-allocated at total_size: seek(total_size - 1), write(b'\0').
SparseFile(total_size) == [k \in 1..total_size |-> 0]

\* file.seek(pos); file.write(data) on a file opened 'r+b': the bytes land at
\* offsets pos .. pos + len(data) - 1 and the file grows when they pass its
\* end.
WriteAt(bytes, pos, data) ==
    LET new_len == IF Len(bytes) > pos + Len(data) THEN Len(bytes)
                   ELSE pos + Len(data)
    IN [k \in 1..new_len |->
           IF k > pos /\ k <= pos + Len(data) THEN data[k - pos]
           ELSE IF k <= Len(bytes) THEN bytes[k] ELSE 0]

\* ------------------------------------------------------------------ state file

EmptyProgress == [i \in {} |-> 0]

\* A state file that does not parse (empty or torn), and the value state_data
\* holds when there is no state file.
Unparsable ==
    [valid |-> FALSE, uri |-> "", total_size |-> 0,
     completed_segments |-> {}, segment_progress |-> EmptyProgress]

\* The record _save_state writes: json.dumps(state).
StateRecord(u, total_size, completed, progress) ==
    [valid |-> TRUE, uri |-> u, total_size |-> total_size,
     completed_segments |-> completed, segment_progress |-> progress]

\* ------------------------------------------------------------------ fetch.py

Ids(segs) == 0 .. (Len(segs) - 1)

\* The byte range of segment id i: segments[i] of the source.
RangeOf(segs, i) == segs[i + 1]

TotalSize(segs) == segs[Len(segs)][2] + 1

\* The resume check leaving both files in place when the state file is not
\* one it accepts.
ResumeCheck_kept(resume, u, total_size) ==
    IF resume /\ file_exists /\ state_exists
       /\ state_data.valid /\ state_data.uri = u
       /\ state_data.total_size = total_size
    THEN [resumed |-> TRUE,
          completed |-> state_data.completed_segments,
          progress |-> state_data.segment_progress,
          unlink |-> FALSE]
    ELSE [resumed |-> FALSE, completed |-> {},
          progress |-> EmptyProgress, unlink |-> FALSE]

\* What the resume check at the head of download_file_async decides:
\* the completed set and progress map to start with, and whether the output
\* file and the state file are unlinked.
ResumeCheck(resume, u, total_size) ==
    IF resume /\ file_exists /\ state_exists
    THEN IF state_data.valid /\ state_data.uri = u
                             /\ state_data.total_size = total_size
         THEN [resumed |-> TRUE,
               completed |-> state_data.completed_segments,
               progress |-> state_data.segment_progress,
               unlink |-> FALSE]
         ELSE \* a state file for another download, or one that does not parse
              [resumed |-> FALSE, completed |-> {},
               progress |-> EmptyProgress, unlink |-> TRUE]
    ELSE [resumed |-> FALSE, completed |-> {},
          progress |-> EmptyProgress, unlink |-> FALSE]

\* start_byte moved by a resume_offset equal to the length of the range too.
StartByte_inclusive(byte_range, resume_offset) ==
    IF resume_offset > 0 /\ resume_offset <= byte_range[2] - byte_range[1] + 1
    THEN byte_range[1] + resume_offset
    ELSE byte_range[1]

\* start_byte moved by any resume_offset > 0, past the end of the range too.
StartByte_unchecked(byte_range, resume_offset) ==
    IF resume_offset > 0 THEN byte_range[1] + resume_offset
    ELSE byte_range[1]

\* Every task started with resume_offset 0, whatever the state file held.
ResumeOffset_zero(progress, i) == 0

\* int(segment_progress.get(str(i), 0))
ResumeOffset(progress, i) == IF i \in DOMAIN progress THEN progress[i] ELSE 0

\* The first byte download_segment_async requests and writes at.
StartByte(byte_range, resume_offset) ==
    IF resume_offset > 0 /\ resume_offset < byte_range[2] - byte_range[1] + 1
    THEN byte_range[1] + resume_offset
    ELSE byte_range[1]

\* A fetch task for every segment, completed or not.
TasksToSpawn_all(segs, completed) == Ids(segs)

\* for i, byte_range in enumerate(segments):
\*     if i in completed_segments: continue
TasksToSpawn(segs, completed) == {i \in Ids(segs) : i \notin completed}

\* The state dict a _save_state in progress holds: the copy
\* list(completed_segments) made when the dict was built.  The dict holds
\* segment_progress itself, not a copy: "progress" records what the map held
\* at that moment, the write serializes what it holds at the write.
Snapshot(completed, progress) ==
    [completed |-> completed, progress |-> progress]

NoSnapshot == Snapshot({}, EmptyProgress)

\* The callback recording the completed segment in segment_progress.
DropProgress_grown(progress, i) == (i :> 1) @@ progress

\* The callback leaving the entry of a completed segment where it is.
DropProgress_kept(progress, i) == progress

\* if str(segment_id) in segment_progress: del segment_progress[...]
DropProgress(progress, i) ==
    [j \in DOMAIN progress \ {i} |-> progress[j]]

NoUpdater == [st |-> "none", completed |-> {}, progress |-> EmptyProgress]

\* The positions at which no invocation is under way: before the first one,
\* after a kill ("idle"), after download_file_async returned, was cancelled,
\* or after the invocation failed before any task was created.
Stopped == {"idle", "returned", "cancelled", "failed"}

\* Every task of the plan taken as one to wait for, the skipped ones too.
Spawned_all == DOMAIN tasks

Spawned == {i \in DOMAIN tasks : tasks[i].st # "skipped"}

\* download_file_async up to its first suspension with other tasks alive:
\* the plan (app.py), the resume check, the pre-allocation of the output
\* file, the state updater and one fetch task per segment not completed.
\* With no task to run it goes straight on to the final _save_state, whose
\* open(state_file, 'w') truncates the state file.
Start(u, amount, resume) ==
    /\ pc \in Stopped
    /\ runs < MaxRuns
    /\ Len(get_segment(FileSize, amount).segments) <= MaxSegments
    /\ LET segs == get_segment(FileSize, amount).segments
           total_size == TotalSize(segs)
           chk == ResumeCheck(resume, u, total_size)
           keep_file == file_exists /\ ~chk.unlink
           spawn == TasksToSpawn(segs, chk.completed)
       IN /\ uri' = u
          /\ segments' = segs
          /\ completed_segments' = chk.completed
          /\ segment_progress' = chk.progress
          /\ file_exists' = TRUE
          /\ file_bytes' = IF keep_file THEN file_bytes
                           ELSE SparseFile(total_size)
          /\ tasks' = [i \in Ids(segs) |->
                 IF i \in spawn
                 THEN [st |-> "running", attempt |-> 0,
                       resume_offset |-> ResumeOffset(chk.progress, i),
                       start_byte |-> StartByte(RangeOf(segs, i),
                                         ResumeOffset(chk.progress, i))]
                 ELSE [st |-> "skipped", attempt |-> 0, resume_offset |-> 0,
                       start_byte |-> RangeOf(segs, i)[1]]]
          /\ progress_bar' = Cardinality(chk.completed)
          /\ state_updater' = [st |-> "ready", completed |-> {},
                              progress |-> EmptyProgress]
          /\ IF spawn = {}
             THEN /\ pc' = "saving"
                  /\ saving' = Snapshot(chk.completed, chk.progress)
                  /\ state_exists' = TRUE
                  /\ state_data' = Unparsable
             ELSE /\ pc' = "gather"
                  /\ saving' = NoSnapshot
                  /\ state_exists' = (state_exists /\ ~chk.unlink)
                  /\ state_data' = IF chk.unlink THEN Unparsable
                                   ELSE state_data
          /\ start_mode' = IF ~resume THEN "no_resume"
                           ELSE IF chk.unlink THEN "discarded"
                           ELSE IF ~chk.resumed THEN "fresh"
                           ELSE IF pc = "returned" THEN "paused"
                           ELSE IF pc = "cancelled" THEN "cancelled"
                           ELSE IF pc = "failed" THEN "failed"
                           ELSE "killed"
    /\ outcome' = "none"
    /\ result' = "none"
    /\ runs' = runs + 1
    /\ UNCHANGED <<honest, side_vars>>

\* Downloader.download_file_async when get_segment raises (app.py:69): the
\* exception leaves it before the output path is worked out and before
\* DownloadManager.download_file_async is called.
PlanFails(amount) ==
    /\ pc \in Stopped
    /\ runs < MaxRuns
    /\ get_segment(FileSize, amount).error # "none"
    /\ pc' = "failed"
    /\ outcome' = "failed"
    /\ result' = get_segment(FileSize, amount).error
    /\ uri' = ""
    /\ segments' = <<>>
    /\ completed_segments' = {}
    /\ segment_progress' = EmptyProgress
    /\ tasks' = <<>>
    /\ state_updater' = NoUpdater
    /\ saving' = NoSnapshot
    /\ start_mode' = "none"
    /\ runs' = runs + 1
    /\ UNCHANGED <<disk_vars, honest, progress_bar, side_vars>>

\* download_file_async when the output file, absent after the resume check,
\* cannot be brought to total_size: the seek and write fail, the fallback
\* truncate(total_size) fails too, and "raise DownloadError" leaves the
\* function before the state updater and the fetch tasks are created.  The
\* file is there, empty, if an open(file_path, 'wb') had succeeded (created).
CreateFails(u, amount, resume, created) ==
    /\ pc \in Stopped
    /\ runs < MaxRuns
    /\ get_segment(FileSize, amount).error = "none"
    /\ Len(get_segment(FileSize, amount).segments) <= MaxSegments
    /\ LET segs == get_segment(FileSize, amount).segments
           chk == ResumeCheck(resume, u, TotalSize(segs))
       IN /\ ~(file_exists /\ ~chk.unlink)
          /\ uri' = u
          /\ segments' = segs
          /\ state_exists' = (state_exists /\ ~chk.unlink)
          /\ state_data' = IF chk.unlink THEN Unparsable ELSE state_data
    /\ file_exists' = created
    /\ file_bytes' = <<>>
    /\ pc' = "failed"
    /\ outcome' = "failed"
    /\ result' = "DownloadError"
    /\ completed_segments' = {}
    /\ segment_progress' = EmptyProgress
    /\ tasks' = <<>>
    /\ state_updater' = NoUpdater
    /\ saving' = NoSnapshot
    /\ start_mode' = "none"
    /\ runs' = runs + 1
    /\ UNCHANGED <<honest, progress_bar, side_vars>>

\* One pass of the retry loop of download_segment_async for segment i, the
\* server answering with r.  Status 200 or 206: the whole body is written at
\* start_byte, the task returns True and its done callback (make_callback)
\* adds i to completed_segments and drops its segment_progress entry.
\* Anything else fails the attempt; after the retry_times-th failure the task
\* raises DownloadError, which its done callback swallows.  The task's end
\* and its callbacks are one step: nothing reads the task in between.
Attempt(i, r) ==
    /\ pc \notin Stopped
    /\ i \in DOMAIN tasks
    /\ tasks[i].st = "running"
    /\ IF r.status \in {200, 206} /\ file_exists
       THEN /\ file_bytes' = WriteAt(file_bytes, tasks[i].start_byte, r.body)
            /\ honest' = (honest /\ r.body =
                   ContentRange(tasks[i].start_byte, RangeOf(segments, i)[2]))
            /\ tasks' = [tasks EXCEPT ![i].st = "ok"]
            /\ completed_segments' = completed_segments \cup {i}
            /\ segment_progress' = DropProgress(segment_progress, i)
            /\ progress_bar' = progress_bar + 1
       ELSE /\ tasks' = [tasks EXCEPT
                   ![i].attempt = @ + 1,
                   ![i].st = IF tasks[i].attempt + 1 >= retry_times
                             THEN "failed" ELSE "running"]
            /\ UNCHANGED <<file_bytes, honest, progress_bar,
                           completed_segments, segment_progress>>
    /\ UNCHANGED <<file_exists, state_exists, state_data, pc, uri, segments,
                   state_updater, saving, outcome, result, runs, start_mode,
                   side_vars>>

\* The coordinator resumes from "await asyncio.gather(*tasks)": every task
\* returned True, or (no return_exceptions) the first task raised.  In the
\* finally clause it cancels the state updater and awaits it; an updater
\* cancelled between its open and its write leaves the state file truncated.
GatherWake ==
    /\ pc = "gather"
    /\ \/ \A i \in Spawned : tasks[i].st = "ok"
       \/ \E i \in Spawned : tasks[i].st = "failed"
    /\ pc' = "join"
    /\ state_updater' = [st |-> "cancelled", completed |-> {},
                          progress |-> EmptyProgress]
    /\ UNCHANGED <<disk_vars, uri, segments, completed_segments,
                   segment_progress, tasks, saving, outcome, result, runs,
                   honest, progress_bar, start_mode, side_vars>>

\* "await state_updater" returns; the final _save_state builds its state
\* dict (list(completed_segments) is copied here) and opens the state file
\* for writing, which truncates it.
JoinReturn ==
    /\ pc = "join"
    /\ pc' = "saving"
    /\ saving' = Snapshot(completed_segments, segment_progress)
    /\ state_exists' = TRUE
    /\ state_data' = Unparsable
    /\ UNCHANGED <<file_exists, file_bytes, uri, segments, completed_segments,
                   segment_progress, tasks, state_updater, outcome, result,
                   runs, honest, progress_bar, start_mode, side_vars>>

\* The final _save_state writes json.dumps(state) and closes the file:
\* the completed list copied earlier, segment_progress as it is now.
FinalWrite ==
    /\ pc = "saving"
    /\ pc' = "saved"
    /\ state_exists' = TRUE
    /\ state_data' = StateRecord(uri, TotalSize(segments), saving.completed,
                                 segment_progress)
    /\ saving' = NoSnapshot
    /\ UNCHANGED <<file_exists, file_bytes, uri, segments, completed_segments,
                   segment_progress, tasks, state_updater, outcome, result,
                   runs, honest, progress_bar, start_mode, side_vars>>

\* if len(completed_segments) == total_segments: state_file.unlink()
\* and in either branch: return str(file_path).  asyncio.run then cancels
\* whatever task is still pending.
Finish ==
    /\ pc = "saved"
    /\ pc' = "returned"
    /\ result' = "path"
    /\ IF Cardinality(completed_segments) = Len(segments)
       THEN /\ outcome' = "downloaded"
            /\ state_exists' = FALSE
            /\ state_data' = Unparsable
       ELSE /\ outcome' = "paused"
            /\ UNCHANGED <<state_exists, state_data>>
    /\ tasks' = [i \in DOMAIN tasks |->
           IF tasks[i].st = "running"
           THEN [tasks[i] EXCEPT !.st = "cancelled"] ELSE tasks[i]]
    /\ state_updater' = [st |-> "cancelled", completed |-> {},
                          progress |-> EmptyProgress]
    /\ UNCHANGED <<file_exists, file_bytes, uri, segments, completed_segments,
                   segment_progress, saving, runs, honest, progress_bar,
                   start_mode, side_vars>>

\* update_state_periodically enters _save_state: the state dict is built
\* (list(completed_segments) copied) and the state file opened for writing.
UpdaterOpen ==
    /\ pc \notin Stopped
    /\ state_updater.st = "ready"
    /\ state_updater' = [st |-> "writing", completed |-> completed_segments,
                          progress |-> segment_progress]
    /\ state_exists' = TRUE
    /\ state_data' = Unparsable
    /\ UNCHANGED <<file_exists, file_bytes, pc, uri, segments,
                   completed_segments, segment_progress, tasks, saving,
                   outcome, result, runs, honest, progress_bar, start_mode,
                   side_vars>>

\* ... writes json.dumps(state), closes the file and sleeps 5 seconds.
UpdaterWrite ==
    /\ pc \notin Stopped
    /\ state_updater.st = "writing"
    /\ state_updater' = [st |-> "ready", completed |-> {},
                              progress |-> EmptyProgress]
    /\ state_exists' = TRUE
    /\ state_data' = StateRecord(uri, TotalSize(segments),
                                 state_updater.completed, segment_progress)
    /\ UNCHANGED <<file_exists, file_bytes, pc, uri, segments,
                   completed_segments, segment_progress, tasks, saving,
                   outcome, result, runs, honest, progress_bar, start_mode,
                   side_vars>>

\* The coordinator is cancelled while it awaits asyncio.gather (Ctrl-C under
\* asyncio.run cancels the main task).  gather cancels the fetch tasks;
\* CancelledError is not an Exception, so only the finally clause runs: the
\* state updater is cancelled and awaited, then CancelledError leaves
\* download_file_async and the final _save_state is never reached.  An
\* updater cancelled inside _save_state has opened the state file; whether
\* its write still reaches the file depends on how far the write had got
\* (flushed).
Cancel(flushed) ==
    /\ pc = "gather"
    /\ \E i \in Spawned : tasks[i].st = "running"
    /\ flushed => state_updater.st = "writing"
    /\ pc' = "cancelled"
    /\ outcome' = "cancelled"
    /\ result' = "CancelledError"
    /\ tasks' = [i \in DOMAIN tasks |->
           IF tasks[i].st = "running"
           THEN [tasks[i] EXCEPT !.st = "cancelled"] ELSE tasks[i]]
    /\ state_updater' = [st |-> "cancelled", completed |-> {},
                          progress |-> EmptyProgress]
    /\ IF flushed
       THEN /\ state_exists' = TRUE
            /\ state_data' = StateRecord(uri, TotalSize(segments),
                                         state_updater.completed,
                                         segment_progress)
       ELSE UNCHANGED <<state_exists, state_data>>
    /\ UNCHANGED <<file_exists, file_bytes, uri, segments, completed_segments,
                   segment_progress, saving, runs, honest,
                   progress_bar, start_mode,
                   side_vars>>

\* The process is killed: its memory is gone, the disk stays as it is.
Kill ==
    /\ pc \notin Stopped
    /\ pc' = "idle"
    /\ uri' = ""
    /\ segments' = <<>>
    /\ completed_segments' = {}
    /\ segment_progress' = EmptyProgress
    /\ tasks' = <<>>
    /\ state_updater' = NoUpdater
    /\ saving' = NoSnapshot
    /\ outcome' = "none"
    /\ result' = "none"
    /\ start_mode' = "none"
    /\ UNCHANGED <<disk_vars, runs, honest, progress_bar, side_vars>>

\* ------------------------------------------------------------------ one fetch

\* download_segment_async explored on its own: one call for byte_range with
\* resume_offset, against a file pre-allocated at FileSize bytes.

\* What one GET with "Range: bytes=start-end" can end with: the answers of
\* Responses, a 206 whose body stops one byte short, a timeout
\* (asyncio.TimeoutError) or a transport error (aiohttp.ClientError).
FetchResponses(start, end) ==
    {[outcome |-> "response", status |-> r.status, body |-> r.body] :
        r \in Responses(start, end)}
    \cup {[outcome |-> "response", status |-> 206,
           body |-> ContentRange(start, end - 1)],
          [outcome |-> "timeout", status |-> 0, body |-> <<>>],
          [outcome |-> "client_error", status |-> 0, body |-> <<>>]}

NoFetchResponse == [outcome |-> "none", status |-> 0, body |-> <<>>]

\* 'Range': f'bytes={start_byte}-{end_byte}'
RangeHeader(start_byte, end_byte) ==
    [unit |-> "bytes", first |-> start_byte, last |-> end_byte]

NoRangeHeader == [unit |-> "", first |-> 0, last |-> 0]

\* The byte ranges and resume offsets a call is explored with: every range
\* inside the resource; offsets from negative to past the longest range.
FetchRanges ==
    {br \in (0..(FileSize - 1)) \X (0..(FileSize - 1)) : br[1] <= br[2]}

ResumeOffsets == (-1) .. (FileSize + 1)

\* The output file a call finds: pre-allocated, with the bytes of the range
\* before start_byte already there when the call resumes inside the range.
FileBefore(br, offset) ==
    [k \in 1..FileSize |->
        IF br[1] <= k - 1 /\ k - 1 < StartByte(br, offset)
        THEN Content[k] ELSE 0]

\* No retry: the first failed pass is the last.
HasNextAttempt_never(attempt) == FALSE

\* One attempt too many: the loop goes on after attempt retry_times - 1.
HasNextAttempt_extra(attempt) == attempt < retry_times

\* for attempt in range(self.retry_times): another pass follows this one.
HasNextAttempt(attempt) == attempt + 1 < retry_times

\* One pass of the retry loop: the GET is sent and ends with r.  A response
\* with status 200 or 206 has its whole body written at start_byte and the
\* call returns True; anything else is logged and fails the pass, and after
\* the last pass the call raises DownloadError.
FetchAttempt(r) ==
    /\ f_pc = "request"
    /\ f_requests' = f_requests + 1
    /\ f_range_header' =
           RangeHeader(StartByte(f_byte_range, f_resume_offset),
                       f_byte_range[2])
    /\ f_response' = r
    /\ IF r.outcome = "response" /\ r.status \in {200, 206}
       THEN /\ f_seek' = StartByte(f_byte_range, f_resume_offset)
            /\ f_file' = WriteAt(f_file,
                             StartByte(f_byte_range, f_resume_offset), r.body)
            /\ f_result' = "True"
            /\ f_pc' = "returned"
       ELSE /\ f_file' = f_file
            /\ f_seek' = f_seek
            /\ IF HasNextAttempt(f_attempt)
               THEN /\ f_pc' = "sleep"
                    /\ f_result' = f_result
               ELSE /\ f_pc' = "raised"
                    /\ f_result' = "DownloadError"
    /\ UNCHANGED <<f_byte_range, f_resume_offset, f_attempt,
                   plan_vars, probe_vars, disk_vars, pc, uri, segments,
                   completed_segments, segment_progress, tasks, state_updater,
                   saving, outcome, result, runs, honest,
                   progress_bar, start_mode>>

\* await asyncio.sleep(3), then the next pass of the loop.
FetchBackoff ==
    /\ f_pc = "sleep"
    /\ f_pc' = "request"
    /\ f_attempt' = f_attempt + 1
    /\ UNCHANGED <<f_byte_range, f_resume_offset, f_file, f_result,
                   f_requests, f_response, f_range_header, f_seek,
                   plan_vars, probe_vars, disk_vars, pc, uri, segments,
                   completed_segments, segment_progress, tasks, state_updater,
                   saving, outcome, result, runs, honest,
                   progress_bar, start_mode>>

FetchIdle ==
    /\ f_byte_range = <<0, 0>>
    /\ f_resume_offset = 0
    /\ f_attempt = 0
    /\ f_pc = "idle"
    /\ f_file = <<>>
    /\ f_result = "none"
    /\ f_requests = 0
    /\ f_response = NoFetchResponse
    /\ f_range_header = NoRangeHeader
    /\ f_seek = -1

\* ------------------------------------------------------------------ getsize.py

\* Response headers are a dict from header names to their text.
NoHeaders == [n \in {} |-> <<>>]

\* The header name absent, or present with one of the values vals.
OptionalHeader(name, vals) == {NoHeaders} \cup {name :> v : v \in vals}

AcceptRangesValues == {<<"b", "y", "t", "e", "s">>, <<"n", "o", "n", "e">>}

\* "bytes 0-1/4", "bytes 0-1" and "bytes 0-1/*"
ContentRangeValues ==
    {<<"b", "y", "t", "e", "s", " ", "0", "-", "1", "/", "4">>,
     <<"b", "y", "t", "e", "s", " ", "0", "-", "1">>,
     <<"b", "y", "t", "e", "s", " ", "0", "-", "1", "/", "*">>}

ContentLengthValues == {<<"4">>, <<"2">>, <<"0">>}

\* 'attachment; filename="a"' and 'attachment'
ContentDispositionValues ==
    {<<"a", "t", "t", "a", "c", "h", "m", "e", "n", "t", ";", " ", "f", "i", "l", "e", "n", "a", "m", "e", "=", "\"", "a", "\"">>,
     <<"a", "t", "t", "a", "c", "h", "m", "e", "n", "t">>}

\* What the server can answer the HEAD request with: a response with a status
\* and headers, or no response at all (a timeout or a transport error).
HeadResponses ==
    {[transport |-> "error", status |-> 0, headers |-> NoHeaders]}
    \cup {[transport |-> "ok", status |-> st, headers |-> ar @@ cr @@ cl @@ cd] :
            st \in {200, 404},
            ar \in OptionalHeader("Accept-Ranges", AcceptRangesValues),
            cr \in OptionalHeader("Content-Range", ContentRangeValues),
            cl \in OptionalHeader("Content-Length", ContentLengthValues),
            cd \in OptionalHeader("Content-Disposition",
                                  ContentDispositionValues)}

\* ... and the GET with "Range: bytes=0-1".
RangeResponses ==
    {[transport |-> "error", status |-> 0, headers |-> NoHeaders]}
    \cup {[transport |-> "ok", status |-> st, headers |-> cr @@ cl] :
            st \in {206, 200, 404},
            cr \in OptionalHeader("Content-Range", ContentRangeValues),
            cl \in OptionalHeader("Content-Length", ContentLengthValues)}

NoResponse == [transport |-> "none", status |-> 0, headers |-> NoHeaders]

\* urlparse(uri).path of the URLs explored: "/d/f", "/d/" and "/a%20b".
UrlPaths ==
    {<<"/", "d", "/", "f">>, <<"/", "d", "/">>,
     <<"/", "a", "%", "2", "0", "b">>}

\* The size read from Content-Length first, from Content-Range only when
\* Content-Length is absent.
_extract_file_size_length_first(headers) ==
    LET has_range == "Content-Range" \in DOMAIN headers
        has_length == "Content-Length" \in DOMAIN headers
    IN IF has_length
       THEN IF PyIsInt(headers["Content-Length"])
            THEN Some(PyInt(headers["Content-Length"])) ELSE None
       ELSE IF has_range
               /\ PyIsInt(PySplitLast(headers["Content-Range"], "/"))
       THEN Some(PyInt(PySplitLast(headers["Content-Range"], "/")))
       ELSE IF has_range
               /\ PyIsInt(PySplitLast(headers["Content-Range"], "-"))
       THEN Some(PyInt(PySplitLast(headers["Content-Range"], "-")))
       ELSE None

\* FileInfoManager._extract_file_size: the size as an int, or None.
\*   Content-Range first: int() of what follows its last "/", else int() of
\*   what follows its last "-"; then Content-Length, whose int() failing is
\*   caught by the outer except, which returns None.
_extract_file_size(headers) ==
    LET has_range == "Content-Range" \in DOMAIN headers
        has_length == "Content-Length" \in DOMAIN headers
    IN IF has_range
          /\ PyIsInt(PySplitLast(headers["Content-Range"], "/"))
       THEN Some(PyInt(PySplitLast(headers["Content-Range"], "/")))
       ELSE IF has_range
               /\ PyIsInt(PySplitLast(headers["Content-Range"], "-"))
       THEN Some(PyInt(PySplitLast(headers["Content-Range"], "-")))
       ELSE IF has_length /\ PyIsInt(headers["Content-Length"])
       THEN Some(PyInt(headers["Content-Length"]))
       ELSE None

\* The text of the first part of a Content-Disposition value that, stripped of
\* blanks, starts with "filename=" and has a non-empty name once its quotes
\* are stripped; <<>> when there is none.
RECURSIVE FilenameOfParts(_)
FilenameOfParts(parts) ==
    IF parts = <<>> THEN <<>>
    ELSE LET part == PyStrip(parts[1], {" "})
             filename == PyStrip(SubSeq(part, 10, Len(part)), {"\"", "'"})
         IN IF PyStartsWith(part, <<"f", "i", "l", "e", "n", "a", "m", "e", "=">>)
               /\ filename # <<>>
            THEN filename
            ELSE FilenameOfParts(Tail(parts))

\* FileInfoManager._extract_filename: from Content-Disposition, else the last
\* component of the URL path, else "downloaded_file".
_extract_filename(path, headers) ==
    LET from_header ==
            IF "Content-Disposition" \in DOMAIN headers
            THEN FilenameOfParts(PySplit(headers["Content-Disposition"], ";"))
            ELSE <<>>
    IN IF from_header # <<>> THEN from_header
       ELSE IF PySplitLast(path, "/") # <<>> THEN PySplitLast(path, "/")
       ELSE <<"d", "o", "w", "n", "l", "o", "a", "d", "e", "d", "_", "f", "i", "l", "e">>

\* "supports_range": "Accept-Ranges" in response.headers
\*                   or "Content-Range" in response.headers
supports_range(headers) ==
    \/ "Accept-Ranges" \in DOMAIN headers
    \/ "Content-Range" \in DOMAIN headers

NoInfo ==
    [error |-> "pending", size |-> None, filename |-> <<>>,
     supports_range |-> FALSE]

FileInfoError ==
    [error |-> "FileInfoError", size |-> None, filename |-> <<>>,
     supports_range |-> FALSE]

\* The dict get_file_info_async returns (content_type left out): the size it
\* was given, the file name and range support read from the HEAD response.
FileInfo(file_size, path, headers) ==
    [error |-> "none", size |-> file_size,
     filename |-> _extract_filename(path, headers),
     supports_range |-> supports_range(headers)]

\* get_file_info_async receives the answer to its HEAD request.  No answer or
\* a status >= 400 raises FileInfoError; a size found in the headers makes it
\* return; otherwise it sends the GET with "Range: bytes=0-1".
HeadRequest(response) ==
    /\ probe_pc = "head"
    /\ head_response' = response
    /\ IF response.transport = "error" \/ response.status >= 400
       THEN /\ probe_pc' = "failed"
            /\ file_info' = FileInfoError
       ELSE IF ~_extract_file_size(response.headers).is_none
       THEN /\ probe_pc' = "returned"
            /\ file_info' = FileInfo(_extract_file_size(response.headers),
                                     url_path, response.headers)
       ELSE /\ probe_pc' = "range_get"
            /\ file_info' = file_info
    /\ UNCHANGED <<url_path, segments_arg, range_response, segment_ranges,
                   plan_vars, fetch_vars, disk_vars, pc, uri, segments,
                   completed_segments, segment_progress, tasks, state_updater,
                   saving, outcome, result, runs, honest,
                   progress_bar, start_mode>>

\* ... receives the answer to the fallback GET: its status is not looked at,
\* the size is whatever its headers give, None included.
RangeGet(response) ==
    /\ probe_pc = "range_get"
    /\ range_response' = response
    /\ IF response.transport = "error"
       THEN /\ probe_pc' = "failed"
            /\ file_info' = FileInfoError
       ELSE /\ probe_pc' = "returned"
            /\ file_info' = FileInfo(_extract_file_size(response.headers),
                                     url_path, head_response.headers)
    /\ UNCHANGED <<url_path, segments_arg, head_response, segment_ranges,
                   plan_vars, fetch_vars, disk_vars, pc, uri, segments,
                   completed_segments, segment_progress, tasks, state_updater,
                   saving, outcome, result, runs, honest,
                   progress_bar, start_mode>>

\* ------------------------------------------------------------------ app.py

\* The segments argument of Downloader.download_file_async: 0 stands for the
\* falsy values None and 0, for which config["segments_amount"] is taken.
SegmentsArgs == 0 .. MaxSegmentsArg

\* The requested count whatever the probe said about ranges.
segments_count_requested(arg, info) ==
    IF arg # 0 THEN arg ELSE config_segments_amount

\* segments_count = segments or config["segments_amount"]
\* if not file_info.get("supports_range", True): segments_count = 1
segments_count(arg, info) ==
    IF ~info.supports_range THEN 1
    ELSE IF arg # 0 THEN arg
    ELSE config_segments_amount

\* Downloader.download_file_async after the probe has returned: the plan it
\* computes.  A size of None makes get_segment raise TypeError at
\* "max_size <= 0".
PlanFromInfo ==
    /\ probe_pc = "returned"
    /\ probe_pc' = "planned"
    /\ segment_ranges' =
           IF file_info.size.is_none
           THEN [error |-> "TypeError", segments |-> <<>>]
           ELSE get_segment(file_info.size.value,
                            segments_count(segments_arg, file_info))
    /\ UNCHANGED <<url_path, segments_arg, head_response, range_response,
                   file_info,
                   plan_vars, fetch_vars, disk_vars, pc, uri, segments,
                   completed_segments, segment_progress, tasks, state_updater,
                   saving, outcome, result, runs, honest,
                   progress_bar, start_mode>>

ProbeIdle ==
    /\ url_path = <<>>
    /\ segments_arg = 0
    /\ head_response = NoResponse
    /\ range_response = NoResponse
    /\ probe_pc = "idle"
    /\ file_info = NoInfo
    /\ segment_ranges = [error |-> "pending", segments |-> <<>>]

\* ------------------------------------------------------------------ the engine

EngineIdle ==
    /\ file_exists = FALSE
    /\ file_bytes = <<>>
    /\ state_exists = FALSE
    /\ state_data = Unparsable
    /\ pc = "idle"
    /\ uri = ""
    /\ segments = <<>>
    /\ completed_segments = {}
    /\ segment_progress = EmptyProgress
    /\ tasks = <<>>
    /\ state_updater = NoUpdater
    /\ saving = NoSnapshot
    /\ outcome = "none"
    /\ result = "none"
    /\ runs = 0
    /\ honest = TRUE
    /\ progress_bar = 0
    /\ start_mode = "none"

NotPlanned == [error |-> "pending", segments |-> <<>>]

Init ==
    /\ EngineIdle
    /\ ProbeIdle
    /\ FetchIdle
    /\ p_size = 0
    /\ p_amount = 0
    /\ p_result = NotPlanned

Next ==
    \/ \E u \in Uris, amount \in 1..FileSize, resume \in BOOLEAN :
           Start(u, amount, resume)
    \/ \E amount \in (-1)..0 : PlanFails(amount)
    \/ \E u \in Uris, amount \in 1..FileSize, resume \in BOOLEAN,
          created \in BOOLEAN : CreateFails(u, amount, resume, created)
    \/ \E i \in DOMAIN tasks :
           \E r \in Responses(tasks[i].start_byte, RangeOf(segments, i)[2]) :
               Attempt(i, r)
    \/ GatherWake
    \/ JoinReturn
    \/ FinalWrite
    \/ Finish
    \/ UpdaterOpen
    \/ UpdaterWrite
    \/ \E flushed \in BOOLEAN : Cancel(flushed)
    \/ Kill

Spec == Init /\ [][Next]_vars

\* Some running fetch task's GET ends, with whatever the server answers.
AttemptEnds ==
    \E i \in DOMAIN tasks :
        \E r \in Responses(tasks[i].start_byte, RangeOf(segments, i)[2]) :
            Attempt(i, r)

\* The engine under the event loop's scheduling: a GET that was sent ends,
\* and a coordinator that can go on (gather done, updater awaited, state
\* file opened, final state written) does go on.  A cancellation or a kill
\* may come or not; the state updater may run or not.
FairSpec ==
    /\ Spec
    /\ WF_vars(AttemptEnds)
    /\ WF_vars(GatherWake)
    /\ WF_vars(JoinReturn)
    /\ WF_vars(FinalWrite)
    /\ WF_vars(Finish)

\* ------------------------------------------------------------------ the engine over a state file
\* The engine started in a directory that already holds an output file of
\* FileSize bytes and a state file for the same download: any completed
\* list and any segment_progress map over the segment ids, as json.loads
\* returns them.

StoredProgress ==
    UNION {[d -> 1..MaxStoredOffset] : d \in SUBSET (0..(MaxSegments - 1))}

StoredStates ==
    {StateRecord(u, FileSize, c, p) :
        u \in Uris, c \in SUBSET (0..(MaxSegments - 1)), p \in StoredProgress}

ResumeInit ==
    /\ file_exists = TRUE
    /\ file_bytes = SparseFile(FileSize)
    /\ state_exists = TRUE
    /\ state_data \in StoredStates
    /\ pc = "idle"
    /\ uri = ""
    /\ segments = <<>>
    /\ completed_segments = {}
    /\ segment_progress = EmptyProgress
    /\ tasks = <<>>
    /\ state_updater = NoUpdater
    /\ saving = NoSnapshot
    /\ outcome = "none"
    /\ result = "none"
    /\ runs = 0
    /\ honest = TRUE
    /\ progress_bar = 0
    /\ start_mode = "none"
    /\ ProbeIdle
    /\ FetchIdle
    /\ p_size = 0
    /\ p_amount = 0
    /\ p_result = NotPlanned

ResumeSpec == ResumeInit /\ [][Next]_vars

\* ------------------------------------------------------------------ the planner alone

PlanSizes == (-1) .. MaxPlanSize

PlanAmounts == (-1) .. MaxPlanSegments

PlanInit ==
    /\ EngineIdle
    /\ ProbeIdle
    /\ FetchIdle
    /\ p_size \in PlanSizes
    /\ p_amount \in PlanAmounts
    /\ p_result = NotPlanned

\* get_segment(max_size, segments_amount) is called and returns or raises.
Plan ==
    /\ p_result = NotPlanned
    /\ p_result' = get_segment(p_size, p_amount)
    /\ UNCHANGED <<p_size, p_amount, disk_vars, pc, uri, segments,
                   completed_segments, segment_progress, tasks, state_updater,
                   saving, outcome, result, runs, honest, progress_bar,
                   start_mode, probe_vars, fetch_vars>>

PlanNext == Plan

PlanSpec == PlanInit /\ [][PlanNext]_vars

\* ------------------------------------------------------------------ the probe alone

ProbeInit ==
    /\ EngineIdle
    /\ FetchIdle
    /\ p_size = 0
    /\ p_amount = 0
    /\ p_result = NotPlanned
    /\ url_path \in UrlPaths
    /\ segments_arg \in SegmentsArgs
    /\ head_response = NoResponse
    /\ range_response = NoResponse
    /\ probe_pc = "head"
    /\ file_info = NoInfo
    /\ segment_ranges = NotPlanned

ProbeNext ==
    \/ \E response \in HeadResponses : HeadRequest(response)
    \/ \E response \in RangeResponses : RangeGet(response)
    \/ PlanFromInfo

ProbeSpec == ProbeInit /\ [][ProbeNext]_vars

\* ------------------------------------------------------------------ one fetch alone

FetchInit ==
    /\ EngineIdle
    /\ ProbeIdle
    /\ p_size = 0
    /\ p_amount = 0
    /\ p_result = NotPlanned
    /\ f_byte_range \in FetchRanges
    /\ f_resume_offset \in ResumeOffsets
    /\ f_attempt = 0
    /\ f_pc = "request"
    /\ f_file = FileBefore(f_byte_range, f_resume_offset)
    /\ f_result = "none"
    /\ f_requests = 0
    /\ f_response = NoFetchResponse
    /\ f_range_header = NoRangeHeader
    /\ f_seek = -1

FetchNext ==
    \/ \E r \in FetchResponses(StartByte(f_byte_range, f_resume_offset),
                               f_byte_range[2]) : FetchAttempt(r)
    \/ FetchBackoff

FetchSpec == FetchInit /\ [][FetchNext]_vars

\* ------------------------------------------------------------------ claims

Returned == pc = "returned"

\* The planner was called with a valid size and a count of at least 1, and
\* has answered.
PlannedValid == p_result # NotPlanned /\ p_size > 0 /\ p_amount >= 1

\* Every range of the current plan is in completed_segments.
AllRangesCompleted == \A i \in Ids(segments) : i \in completed_segments

\* C1 (bit-exactness): whenever download has returned the final path on its
\* success branch (every accepted response being a 200 or a 206 with whatever
\* body), the output file is byte-for-byte the server's content.
BitExact ==
    (Returned /\ result = "path" /\ outcome = "downloaded")
        => (file_exists /\ file_bytes = Content)

\* C2 (partition): for size > 0 and n >= 1 the planner returns ranges in
\* ascending order, the first starting at 0, each next one starting at the
\* previous end + 1, each with start <= end, that cover every offset of
\* [0, size) exactly once and nothing else.
Partition ==
    PlannedValid =>
        LET segs == p_result.segments IN
        /\ p_result.error = "none"
        /\ Len(segs) >= 1
        /\ segs[1][1] = 0
        /\ \A k \in 1..Len(segs) : segs[k][1] <= segs[k][2]
        /\ \A k \in 1..(Len(segs) - 1) : segs[k + 1][1] = segs[k][2] + 1
        /\ \A k \in 1..Len(segs) : segs[k][2] <= p_size - 1
        /\ \A b \in 0..(p_size - 1) :
               Cardinality({k \in 1..Len(segs) :
                                segs[k][1] <= b /\ b <= segs[k][2]}) = 1

\* A plan of several ranges, the last one shorter than the others.
PartitionWitness ==
    /\ PlannedValid
    /\ p_size = 9
    /\ p_amount = 4
    /\ p_result.segments =
           << <<0, 1>>, <<2, 3>>, <<4, 5>>, <<6, 7>>, <<8, 8>> >>

\* C3 (plan size): for size > 0 and n >= 1 the planner returns exactly
\* min(n, size) ranges.
PlanSizeIsMin ==
    PlannedValid =>
        /\ p_result.error = "none"
        /\ Len(p_result.segments) = Min(p_amount, p_size)

\* C4 (last-range closure): for size > 0 and n >= 1 the last range of the plan
\* ends at size - 1.
LastRangeClosure ==
    PlannedValid =>
        /\ p_result.error = "none"
        /\ Len(p_result.segments) >= 1
        /\ p_result.segments[Len(p_result.segments)][2] = p_size - 1

\* A plan whose last range had to be cut: [6, 7] closed to [6, 6].
LastRangeClosureWitness ==
    /\ PlannedValid
    /\ p_size = 7
    /\ p_amount = 3
    /\ Len(p_result.segments) = 4
    /\ p_result.segments[4] = <<6, 6>>

\* C5 (no over-write): a fetcher's write changes no byte of the output file
\* outside [range.start, range.end_inclusive] of its own range and does not
\* make the file longer.
NoOverWrite ==
    [][\A i \in DOMAIN tasks :
          (/\ i \in DOMAIN tasks'
           /\ tasks[i].st = "running"
           /\ tasks'[i].st = "ok")
          => \A k \in 1..Len(file_bytes') :
                 (IF k > Len(file_bytes) THEN TRUE
                  ELSE file_bytes'[k] # file_bytes[k])
                 => (/\ RangeOf(segments, i)[1] <= k - 1
                     /\ k - 1 <= RangeOf(segments, i)[2])]_vars

\* The state file holds a record that parses and names uri u and size
\* total_size, and the output file is there.
Resumable(u, total_size) ==
    /\ file_exists
    /\ state_exists
    /\ state_data.valid
    /\ state_data.uri = u
    /\ state_data.total_size = total_size

ResumeIdempotence ==
    (Returned /\ start_mode = "paused" /\ honest /\ outcome = "downloaded")
        => (file_exists /\ file_bytes = Content)

\* C8 (incomplete is an error): when download returns with every fetcher
\* resolved and some range not completed, what it returns is an error, not
\* the final path.
IncompleteIsError ==
    (/\ Returned
     /\ \A i \in DOMAIN tasks : tasks[i].st \in {"skipped", "ok", "failed"}
     /\ ~AllRangesCompleted)
        => result = "DownloadError"

\* C9 (pause keeps artifacts): when download returns with some range not
\* completed, the output file and the state file exist and the state file
\* records every completed range.
PauseKeepsArtifacts ==
    (Returned /\ ~AllRangesCompleted)
        => /\ file_exists
           /\ state_exists
           /\ state_data.valid
           /\ completed_segments \subseteq state_data.completed_segments

\* C10 (state file means unfinished): when download has returned, the state
\* file is gone exactly when every range of the plan is completed.
StateFileMeansUnfinished ==
    Returned => (AllRangesCompleted <=> ~state_exists)

\* C11 (a failing segment does not cut the others short): the coordinator is
\* at its final checkpoint or past it only when every fetcher has resolved:
\* none is still running, none had to be cancelled at the return.
NoEarlyReturn ==
    (pc \in {"saving", "saved", "returned"})
        => \A i \in DOMAIN tasks : tasks[i].st \notin {"running", "cancelled"}

\* C12 (cancellation checkpoint): once the coordinator has been cancelled
\* while fetchers were running, no fetcher runs any more, the output file and
\* the state file exist, and the state file holds the checkpoint of the
\* completed set as it was at the cancellation.
CancellationCheckpoint ==
    (pc = "cancelled")
        => /\ \A i \in DOMAIN tasks : tasks[i].st # "running"
           /\ file_exists
           /\ state_exists
           /\ state_data.valid
           /\ state_data.completed_segments = completed_segments

\* C13 (atomic checkpoint): when a killed process is restarted with
\* resume = true and finds the output file and a state file, the state file
\* holds a complete record that parses, and the restart keeps the bytes of the
\* output file.
AtomicCheckpoint ==
    [][(/\ pc = "idle"
        /\ pc' # "idle"
        /\ start_mode' # "no_resume"
        /\ file_exists
        /\ state_exists)
       => (state_data.valid /\ file_bytes' = file_bytes)]_vars

\* C14 (resume or discard): a download that starts with resume = true, the
\* output file present and a state file for the same uri and size resumes: it
\* restores the completed set and keeps the output file.  A download that
\* starts in any other case starts with an empty completed set, with the old
\* output file replaced by a fresh one and the old state file deleted.
ResumeOrDiscard ==
    [][(/\ pc \in Stopped
        /\ pc' \notin Stopped)
       => IF start_mode' # "no_resume"
             /\ Resumable(uri', TotalSize(segments'))
          THEN /\ completed_segments' = state_data.completed_segments
               /\ file_exists'
               /\ file_bytes' = file_bytes
          ELSE /\ completed_segments' = {}
               /\ file_bytes' = SparseFile(TotalSize(segments'))
               /\ ~state_exists']_vars

\* app.py has computed its plan from metadata with a size > 0.
PlannedFromSize ==
    /\ probe_pc = "planned"
    /\ ~file_info.size.is_none
    /\ file_info.size.value > 0

\* C15 (single segment without range support): when the probe reported
\* supports_range = false (and a size > 0), the plan made for the coordinator
\* is the single range [0, size - 1], whatever segments argument was given.
SingleSegmentWithoutRanges ==
    (PlannedFromSize /\ ~file_info.supports_range)
        => /\ segment_ranges.error = "none"
           /\ segment_ranges.segments = << <<0, file_info.size.value - 1>> >>

\* Three segments asked for, a server without range support and 4 bytes: one
\* range [0, 3].
SingleSegmentWithoutRangesWitness ==
    /\ PlannedFromSize
    /\ ~file_info.supports_range
    /\ segments_arg = 3
    /\ file_info.size.value = 4
    /\ segment_ranges.segments = << <<0, 3>> >>

\* The probe has returned metadata.
ProbeReturned == probe_pc \in {"returned", "planned"}

\* C16 (range-support detection): the metadata's supports_range is true
\* exactly when the HEAD response has an Accept-Ranges header whose value is
\* not "none" or has a Content-Range header.
RangeSupportDetection ==
    ProbeReturned =>
        (file_info.supports_range <=>
            \/ /\ "Accept-Ranges" \in DOMAIN head_response.headers
               /\ head_response.headers["Accept-Ranges"]
                      # <<"n", "o", "n", "e">>
            \/ "Content-Range" \in DOMAIN head_response.headers)

\* C17 (probe result validity): metadata the probe returns has a size, the
\* size is > 0 and the file name is not empty; with no size in the HEAD
\* response nor in the fallback GET response the probe raises instead.
ProbeResultValid ==
    ProbeReturned =>
        /\ ~file_info.size.is_none
        /\ file_info.size.value > 0
        /\ file_info.filename # <<>>

\* The attempt that ended with r succeeded: a response with status 200 or
\* 206, whose body was written.
Accepted(r) == r.outcome = "response" /\ r.status \in {200, 206}

\* C18 (bounded retry): one fetch call sends at most retry_times GETs; it
\* returns True at the first attempt that succeeds and sends nothing after
\* it has returned or raised; it raises only after retry_times failed
\* attempts, and it returns True only on a successful attempt.
BoundedRetry ==
    [][/\ f_requests' <= retry_times
       /\ (f_result # "none" => f_requests' = f_requests)
       /\ (f_requests' # f_requests /\ Accepted(f_response')
               => f_result' = "True")
       /\ (f_result' = "True" => Accepted(f_response'))
       /\ (f_result' = "DownloadError"
               => f_requests' = retry_times /\ ~Accepted(f_response'))]_vars

\* A call that failed retry_times - 1 times and succeeded at its last
\* attempt.
BoundedRetryWitness ==
    /\ f_result = "True"
    /\ f_requests = retry_times
    /\ f_attempt = retry_times - 1

\* The number of bytes the call asks for: start_byte .. end_byte.
RequestedLength ==
    f_byte_range[2] - StartByte(f_byte_range, f_resume_offset) + 1

\* C19 (200 to a range request): an attempt answered with status 200 and a
\* body whose length is not the requested length is a failure: the call does
\* not return True on it and the output file is left as it was.
FullBodyRejected ==
    [][(/\ f_requests' # f_requests
        /\ f_response'.outcome = "response"
        /\ f_response'.status = 200
        /\ Len(f_response'.body) # RequestedLength)
       => (f_result' # "True" /\ f_file' = f_file)]_vars

\* C20 (fetch postcondition): once the call has returned True, every byte of
\* the output file at an offset of [range.start, range.end_inclusive] is the
\* server's byte at that offset.
FetchPostcondition ==
    (f_result = "True")
        => \A k \in f_byte_range[1] .. f_byte_range[2] :
               /\ k + 1 <= Len(f_file)
               /\ f_file[k + 1] = Content[k + 1]

\* C21 (invalid size): for a size <= 0 and any requested segment count the
\* planner raises its invalid-size error (ValueError) and returns no ranges.
InvalidSizeRejected ==
    (p_result # NotPlanned /\ p_size <= 0)
        => /\ p_result.error = "ValueError"
           /\ p_result.segments = <<>>

\* Size 0 with three segments asked for: ValueError.
InvalidSizeRejectedWitness ==
    /\ p_size = 0
    /\ p_amount = 3
    /\ p_result.error = "ValueError"

\* C22 (clean failure): when an invocation fails because planning fails or
\* because the output file cannot be created or pre-allocated, no fetch task
\* and no state updater exists, and an output file or state file on disk
\* afterwards is one that was there before, unchanged.
CleanFailure ==
    [][(pc' = "failed" /\ runs' # runs)
       => /\ tasks' = <<>>
          /\ state_updater' = NoUpdater
          /\ file_exists' => (file_exists /\ file_bytes' = file_bytes)
          /\ state_exists' => (state_exists /\ state_data' = state_data)]_vars

\* The Content-Range values "bytes 0-1/4", "bytes 0-1" and "bytes 0-1/*".
RangeWithTotal ==
    <<"b", "y", "t", "e", "s", " ", "0", "-", "1", "/", "4">>

RangeWithoutTotal ==
    <<"b", "y", "t", "e", "s", " ", "0", "-", "1">>

RangeUnknownTotal ==
    <<"b", "y", "t", "e", "s", " ", "0", "-", "1", "/", "*">>

\* The headers the returned size was read from: those of the HEAD response,
\* or those of the fallback GET response when that request was made.
SizeSource ==
    IF range_response = NoResponse THEN head_response.headers
    ELSE range_response.headers

\* The returned size is n.
SizeIs(n) == ~file_info.size.is_none /\ file_info.size.value = n

\* C23 as stated (size header precedence): with a Content-Length header the
\* size is the value of Content-Length, whether or not Content-Range is there
\* too; Content-Range gives the size only when Content-Length is absent: Z
\* of "bytes X-Y/Z", Y of "bytes X-Y".
ContentLengthFirst ==
    ProbeReturned =>
        /\ \A n \in {0, 2, 4} :
               ("Content-Length" \in DOMAIN SizeSource
                /\ SizeSource["Content-Length"] = <<DigitChars[n + 1]>>)
                   => SizeIs(n)
        /\ ("Content-Length" \notin DOMAIN SizeSource
            /\ "Content-Range" \in DOMAIN SizeSource
            /\ SizeSource["Content-Range"] =  RangeWithTotal)
               => SizeIs(4)
        /\ ("Content-Length" \notin DOMAIN SizeSource
            /\ "Content-Range" \in DOMAIN SizeSource
            /\ SizeSource["Content-Range"] =  RangeWithoutTotal)
               => SizeIs(1)

\* C23 as the code has it: with a Content-Range header of the form
\* "bytes X-Y/Z" the size is Z, of the form "bytes X-Y" it is Y, whether or
\* not Content-Length is there too; Content-Length gives the size only when
\* Content-Range is absent or yields no number ("bytes X-Y/*").
ContentRangeFirst ==
    ProbeReturned =>
        /\ ("Content-Range" \in DOMAIN SizeSource
            /\ SizeSource["Content-Range"] =  RangeWithTotal)
               => SizeIs(4)
        /\ ("Content-Range" \in DOMAIN SizeSource
            /\ SizeSource["Content-Range"] =  RangeWithoutTotal)
               => SizeIs(1)
        /\ \A n \in {0, 2, 4} :
               (/\ "Content-Length" \in DOMAIN SizeSource
                /\ SizeSource["Content-Length"] = <<DigitChars[n + 1]>>
                /\ \/ "Content-Range" \notin DOMAIN SizeSource
                   \/ SizeSource["Content-Range"] =  RangeUnknownTotal)
                   => SizeIs(n)

\* The answer to the fallback GET carries "Content-Length: 2" and
\* "Content-Range: bytes 0-1/4": the size returned is 4.
ContentRangeFirstWitness ==
    /\ ProbeReturned
    /\ range_response # NoResponse
    /\ "Content-Length" \in DOMAIN SizeSource
    /\ SizeSource["Content-Length"] = <<"2">>
    /\ "Content-Range" \in DOMAIN SizeSource
    /\ SizeSource["Content-Range"] =  RangeWithTotal
    /\ SizeIs(4)

\* Percent-decoding of a URL path component, for the one escape the
\* explored URLs hold: "%20" stands for a blank.
RECURSIVE PercentDecoded(_)
PercentDecoded(s) ==
    IF s = <<>> THEN s
    ELSE IF Len(s) >= 3 /\ SubSeq(s, 1, 3) = <<"%", "2", "0">>
    THEN <<" ">> \o PercentDecoded(SubSeq(s, 4, Len(s)))
    ELSE <<s[1]>> \o PercentDecoded(Tail(s))

\* The Content-Disposition value 'attachment; filename="a"'.
DispositionWithName ==
    <<"a", "t", "t", "a", "c", "h", "m", "e", "n", "t", ";", " ", "f", "i", "l", "e", "n", "a", "m", "e", "=", "\"", "a", "\"">>

\* C24 (filename precedence): the file name the probe returns is the
\* unquoted filename= token of Content-Disposition when there is a non-empty
\* one, otherwise the percent-decoded last component of the URL path when
\* that is non-empty, otherwise "downloaded_file".
FilenamePrecedence ==
    ProbeReturned =>
        file_info.filename =
            IF "Content-Disposition" \in DOMAIN head_response.headers
               /\ head_response.headers["Content-Disposition"]
                      = DispositionWithName
            THEN <<"a">>
            ELSE IF PySplitLast(url_path, "/") # <<>>
            THEN PercentDecoded(PySplitLast(url_path, "/"))
            ELSE 
                <<"d", "o", "w", "n", "l", "o", "a", "d", "e", "d", "_", "f", "i", "l", "e">>

\* A GET has been sent.
Requested == f_requests > 0

\* The number of bytes of the range the call was given.
RangeLength == f_byte_range[2] - f_byte_range[1] + 1

\* C25 as stated (requested byte range): for every resume_offset >= 0 the
\* Range header is bytes=(range.start + resume_offset)-(range.end_inclusive)
\* and the body is written from file offset range.start + resume_offset.
RequestedRangeAnyOffset ==
    (Requested /\ f_resume_offset >= 0)
        => /\ f_range_header =
                  [unit |-> "bytes",
                   first |-> f_byte_range[1] + f_resume_offset,
                   last |-> f_byte_range[2]]
           /\ f_result = "True"
                  => f_seek = f_byte_range[1] + f_resume_offset

\* C25 as the code has it: the same for 0 <= resume_offset < the length of
\* the range; for any other resume_offset the request and the write start at
\* range.start.
RequestedRange ==
    Requested =>
        LET first == IF 0 <= f_resume_offset /\ f_resume_offset < RangeLength
                     THEN f_byte_range[1] + f_resume_offset
                     ELSE f_byte_range[1]
        IN /\ f_range_header =
                  [unit |-> "bytes", first |-> first,
                   last |-> f_byte_range[2]]
           /\ f_result = "True" => f_seek = first

\* Range [1, 3] resumed at offset 1: bytes=2-3 requested and written at 2.
RequestedRangeWitness ==
    /\ f_byte_range = <<1, 3>>
    /\ f_resume_offset = 1
    /\ f_result = "True"
    /\ f_range_header = [unit |-> "bytes", first |-> 2, last |-> 3]
    /\ f_seek = 2

\* The step is an invocation that found a state file it accepts.
ValidResume ==
    /\ pc \in Stopped
    /\ pc' \notin Stopped
    /\ start_mode' \in {"paused", "cancelled", "failed", "killed"}

\* C26 (spawned set on resume): after a valid resume there is one fetch task
\* for each range id of the plan that the state file does not list as
\* completed and none for any other id; each task gets the stored progress of
\* its id as resume_offset, 0 when there is none; all of them run at once.
SpawnedOnResume ==
    [][ValidResume =>
          /\ Spawned' = {i \in Ids(segments') :
                             i \notin state_data.completed_segments}
          /\ \A i \in Spawned' :
                 /\ tasks'[i].st = "running"
                 /\ tasks'[i].resume_offset =
                        IF i \in DOMAIN state_data.segment_progress
                        THEN state_data.segment_progress[i]
                        ELSE 0]_vars

\* Two ranges resumed, range 0 skipped as completed and range 1 started
\* with the stored offset 1.
SpawnedOnResumeWitness ==
    /\ start_mode = "killed"
    /\ pc = "gather"
    /\ Len(segments) = 2
    /\ tasks[0].st = "skipped"
    /\ tasks[1].st = "running"
    /\ tasks[1].attempt = 0
    /\ tasks[1].resume_offset = 1
    /\ tasks[1].start_byte = RangeOf(segments, 1)[1] + 1

\* C27 (range widths): with e = min(n, size) and width = size div e, the
\* starts of the plan are 0, width, ..., (e-1)*width; every range but the last
\* is width bytes long and the last one is [(e-1)*width, size-1].
RangeWidths ==
    PlannedValid =>
        LET e == Min(p_amount, p_size)
            width == p_size \div e
            plan == p_result.segments
        IN /\ p_result.error = "none"
           /\ Len(plan) = e
           /\ \A k \in 1..Len(plan) : plan[k][1] = (k - 1) * width
           /\ \A k \in 1..(Len(plan) - 1) :
                  plan[k][2] - plan[k][1] + 1 = width
           /\ plan[Len(plan)] = <<(e - 1) * width, p_size - 1>>
           /\ plan[Len(plan)][2] - plan[Len(plan)][1] + 1 >= width

\* C28 (at least one segment): for every size > 0 and every requested segment
\* count, 0 and negative counts included, the planner does not fail and
\* returns a plan of at least one range.
AtLeastOneSegment ==
    (p_result # NotPlanned /\ p_size > 0)
        => /\ p_result.error = "none"
           /\ Len(p_result.segments) >= 1

\* The step is an invocation that starts fetch tasks.
FetchersStart ==
    /\ pc \in Stopped
    /\ pc' = "gather"

\* C29 (output length before fetching): when the first fetcher is started
\* the output file exists and is total_size bytes long; an output file of
\* another length found with no matching state file has been replaced by a
\* new one of total_size bytes.
OutputLengthBeforeFetching ==
    [][FetchersStart =>
          /\ file_exists'
          /\ Len(file_bytes') = TotalSize(segments')
          /\ (/\ file_exists
              /\ Len(file_bytes) # TotalSize(segments')
              /\ ~Resumable(uri', TotalSize(segments')))
                 => file_bytes' = SparseFile(TotalSize(segments'))]_vars

WellFormedState ==
    pc \notin Stopped
        => /\ completed_segments \cap DOMAIN segment_progress = {}
           /\ completed_segments \subseteq Ids(segments)
           /\ DOMAIN segment_progress \subseteq Ids(segments)

\* C32 (completion bookkeeping): during a run an id enters
\* completed_segments only in the step in which its fetch task returns True,
\* and in that step its segment_progress entry goes and the progress bar
\* advances by exactly one; the id of a task that failed or was cancelled is
\* not added.
CompletionBookkeeping ==
    [][pc \notin Stopped =>
          /\ \A i \in completed_segments' \ completed_segments :
                 /\ i \in DOMAIN tasks
                 /\ tasks[i].st = "running"
                 /\ tasks'[i].st = "ok"
                 /\ i \notin DOMAIN segment_progress'
                 /\ progress_bar' = progress_bar + 1
          /\ \A i \in DOMAIN tasks' :
                 (/\ tasks'[i].st \in {"failed", "cancelled"}
                  /\ i \notin completed_segments)
                     => i \notin completed_segments']_vars

\* Of two ranges resumed with stored offsets, range 1 has completed: it is
\* in completed_segments, its entry is gone and the bar stands at one.
CompletionBookkeepingWitness ==
    /\ pc = "gather"
    /\ Len(segments) = 2
    /\ tasks[1].st = "ok"
    /\ tasks[1].resume_offset = 1
    /\ tasks[0].st = "failed"
    /\ completed_segments = {1}
    /\ DOMAIN segment_progress = {0}
    /\ progress_bar = 1

\* C33 (checkpoint task shutdown): from the moment the final _save_state
\* begins until download_file_async returns, the periodic state updater has
\* been cancelled and awaited, on the path with no fetch task to run too, so
\* that it writes nothing after the final checkpoint or the unlink.
UpdaterShutDown ==
    pc \in {"saving", "saved"} => state_updater.st = "cancelled"

\* The step is an invocation, planned, with resume asked for, that finds the
\* output file and a state file that does not parse.
CorruptResume ==
    /\ pc \in Stopped
    /\ runs' # runs
    /\ segments' # <<>>
    /\ start_mode' # "no_resume"
    /\ file_exists
    /\ state_exists
    /\ ~state_data.valid

\* C34 (corrupt state recovery): resume asked for and the state file there
\* but unparsable: the unparsable file is no error.  Both files are deleted;
\* where the output file can be created anew it is total_size bytes of
\* nothing and every range of the plan is fetched, none taken as completed.
\* The one failure left is that of creating the output file.
CorruptStateRecovery ==
    [][CorruptResume =>
          /\ pc' = "failed" =>
                 /\ result' = "DownloadError"
                 /\ ~state_exists'
                 /\ file_exists' => file_bytes' = <<>>
          /\ pc' # "failed" =>
                 /\ pc' = "gather"
                 /\ outcome' = "none"
                 /\ ~state_exists'
                 /\ file_exists'
                 /\ file_bytes' = SparseFile(TotalSize(segments'))
                 /\ completed_segments' = {}
                 /\ segment_progress' = EmptyProgress
                 /\ Spawned' = Ids(segments')
                 /\ \A i \in Ids(segments') :
                        /\ tasks'[i].st = "running"
                        /\ tasks'[i].start_byte = RangeOf(segments', i)[1]]_vars

\* A download in two ranges started over the output file and the truncated
\* state file an earlier run left: the state file is gone, the output file
\* blank, both tasks run.
CorruptStateRecoveryWitness ==
    /\ start_mode = "discarded"
    /\ runs = 2
    /\ pc = "gather"
    /\ ~state_exists
    /\ file_bytes = SparseFile(FileSize)
    /\ Len(segments) = 2
    /\ completed_segments = {}
    /\ \A i \in Ids(segments) : tasks[i].st = "running" /\ tasks[i].attempt = 0

\* C35 (HTTP error statuses in the probe): once the HEAD response or the
\* response to the fallback GET has come with a status >= 400 the probe has
\* failed and holds no size taken from that response.
ErrorStatusFailsProbe ==
    (\/ head_response.status >= 400
     \/ range_response.status >= 400)
        => /\ probe_pc = "failed"
           /\ file_info.error = "FileInfoError"
           /\ file_info.size.is_none

\* The failures of one attempt: no answer in time, a transport error, an
\* answer whose status is neither 200 nor 206.
AttemptFailed(r) ==
    \/ r.outcome \in {"timeout", "client_error"}
    \/ r.outcome = "response" /\ r.status \notin {200, 206}

\* C36 (per-attempt failures are recoverable): a timeout, a transport error
\* or a status other than 200 and 206 fails the current attempt only: the
\* file is left alone and, while attempts remain, nothing is raised, the call
\* sleeps and then makes the next attempt; DownloadError leaves the call
\* only when the retry_times-th attempt has failed.
AttemptFailureRecovered ==
    [][/\ (f_requests' # f_requests /\ AttemptFailed(f_response'))
              => /\ f_file' = f_file
                 /\ IF f_requests' < retry_times
                    THEN f_pc' = "sleep" /\ f_result' = "none"
                    ELSE f_pc' = "raised" /\ f_result' = "DownloadError"
       /\ f_pc = "sleep"
              => /\ f_pc' = "request"
                 /\ f_attempt' = f_attempt + 1
                 /\ f_requests' = f_requests
                 /\ f_result' = "none"
       /\ f_result' = "DownloadError" => f_requests' = retry_times]_vars

\* The first attempt timed out: the call sleeps before its second attempt.
AttemptFailureRecoveredWitness ==
    /\ f_pc = "sleep"
    /\ f_requests = 1
    /\ f_attempt = 0
    /\ f_response.outcome = "timeout"
    /\ f_result = "none"

\* In one step: an invocation starts with the entries of the state file it
\* accepted and no other; while it runs no entry of segment_progress is added
\* or changed, and an entry goes only as its segment completes.
ProgressOnlyShrinks ==
    /\ (pc \in Stopped /\ pc' \notin Stopped)
           => \A i \in DOMAIN segment_progress' :
                 /\ state_exists /\ state_data.valid
                 /\ i \in DOMAIN state_data.segment_progress
                 /\ segment_progress'[i] = state_data.segment_progress[i]
    /\ (pc \notin Stopped /\ pc' \notin Stopped)
           => /\ \A i \in DOMAIN segment_progress' :
                     /\ i \in DOMAIN segment_progress
                     /\ segment_progress'[i] = segment_progress[i]
              /\ \A i \in DOMAIN segment_progress \ DOMAIN segment_progress' :
                     i \in completed_segments' \ completed_segments

\* C37 (partial map never grown): no step adds an entry to segment_progress
\* or changes one; entries come from an accepted state file and go on
\* completion only.  With nothing on disk to begin with, every checkpoint
\* written therefore has an empty segment_progress and every fetch task, of
\* a resumed download too, starts with resume_offset 0 at the start of its
\* range.
PartialNeverGrown ==
    [][/\ ProgressOnlyShrinks
       /\ segment_progress' = EmptyProgress
       /\ state_data'.segment_progress = EmptyProgress
       /\ \A i \in DOMAIN tasks' :
              /\ tasks'[i].resume_offset = 0
              /\ tasks'[i].start_byte = RangeOf(segments', i)[1]]_vars

\* A download in two ranges resumed from its own checkpoint after a kill:
\* range 0 skipped, range 1 fetched again from its first byte.
PartialNeverGrownWitness ==
    /\ runs = 2
    /\ start_mode = "killed"
    /\ pc = "gather"
    /\ Len(segments) = 2
    /\ tasks[0].st = "skipped"
    /\ tasks[1].st = "running"
    /\ tasks[1].resume_offset = 0
    /\ tasks[1].start_byte = RangeOf(segments, 1)[1]
    /\ state_exists
    /\ state_data.valid
    /\ state_data.completed_segments = {0}
    /\ state_data.segment_progress = EmptyProgress

\* C38 (requested start stays inside the range): whatever resume_offset is
\* (zero, negative, the length of the range or more), the first byte asked
\* for and the offset the body is written at lie in [range.start,
\* range.end]; a resume_offset outside (0, length) is ignored, the request
\* and the write then start at range.start.
StartInsideRange ==
    Requested =>
        /\ f_byte_range[1] <= f_range_header.first
        /\ f_range_header.first <= f_byte_range[2]
        /\ f_range_header.last = f_byte_range[2]
        /\ f_result = "True"
               => f_byte_range[1] <= f_seek /\ f_seek <= f_byte_range[2]
        /\ (f_resume_offset <= 0 \/ f_resume_offset >= RangeLength)
               => /\ f_range_header.first = f_byte_range[1]
                  /\ f_result = "True" => f_seek = f_byte_range[1]

\* Range [1, 2] with resume_offset 2, its own length: bytes=1-2 asked for
\* and written at 1.
StartInsideRangeWitness ==
    /\ f_byte_range = <<1, 2>>
    /\ f_resume_offset = 2
    /\ f_result = "True"
    /\ f_range_header.first = 1
    /\ f_seek = 1

\* C39 (coordinator termination): with every GET ending, an invocation under
\* way comes to its end (it returns, or is cancelled or killed from outside)
\* and every fetch task that runs comes to be done, whatever the server
\* answers and however tasks and state updater interleave.
CoordinatorTerminates ==
    /\ (pc \notin Stopped) ~> (pc \in Stopped)
    /\ \A i \in 0..(MaxSegments - 1) :
           (i \in DOMAIN tasks /\ tasks[i].st = "running")
               ~> ~(i \in DOMAIN tasks /\ tasks[i].st = "running")

\* A download in two ranges has returned: range 0 failed retry_times times,
\* which woke the coordinator; range 1, still running then, was cancelled
\* as the coordinator returned.
CoordinatorTerminatesWitness ==
    /\ pc = "returned"
    /\ outcome = "paused"
    /\ Len(segments) = 2
    /\ tasks[0].st = "failed"
    /\ tasks[0].attempt = retry_times
    /\ tasks[1].st = "cancelled"

====
